---------------------------- MODULE Spec2Model ----------------------------
(***************************************************************************)
(* Model of img_to_oled.py: the converter of an image or animation into a  *)
(* 128x64 one-bit bitmap and a page-addressed SSD1306 framebuffer.         *)
(*                                                                         *)
(* Images are kept as a rectangle of one value on a ground of another:     *)
(* pixel (x, y) of img has value img.fg when x0 <= x < x1 and              *)
(* y0 <= y < y1, and img.bg elsewhere.  Every image the modelled runs       *)
(* build (a solid source, the padded canvas, its resampling, its           *)
(* thresholding and its inversion) has this shape.  Grey value v stands    *)
(* for the RGB triple (v, v, v).                                           *)
(***************************************************************************)
EXTENDS Integers, Sequences, FiniteSets, TLC

\* ------------------------------------------------------------- constants
WIDTH == 128
HEIGHT == 64
PAGES == HEIGHT \div 8
FRAMEBUFFER_SIZE == WIDTH * PAGES
TargetAspect == 2
DefaultDuration == 100
ControlByte == 64
RowLen == 16

\* ---------------------------------------------------------------- bounds
MaxFrames == 2
MaxDim == 12
MaxDotCols == 2

VARIABLES
    args, input, pc, opened, i, frames_img, frames_fb, durations,
    processed, fb, fs, exit_code, pipeline,
    fit_src, canvas,
    bitmap, packed

vars == <<args, input, pc, opened, i, frames_img, frames_fb, durations,
          processed, fb, fs, exit_code, pipeline, fit_src, canvas,
          bitmap, packed>>

mainVars == <<args, input, pc, opened, i, frames_img, frames_fb, durations,
              processed, fb, fs, exit_code, pipeline>>
fitVars == <<fit_src, canvas>>
packVars == <<bitmap, packed>>

\* ---------------------------------------------------------------- images
Solid(mode, w, h, c) ==
    [mode |-> mode, w |-> w, h |-> h,
     x0 |-> 0, y0 |-> 0, x1 |-> w, y1 |-> h, fg |-> c, bg |-> c]

NoImage == Solid("none", 0, 0, 0)

\* pixels[x, y]
Pixel(img, x, y) ==
    IF img.x0 <= x /\ x < img.x1 /\ img.y0 <= y /\ y < img.y1
    THEN img.fg ELSE img.bg

\* Image.new("RGB", (new_w, new_h), bg_color)
ImageNew(mode, w, h, c) == Solid(mode, w, h, c)

\* canvas.paste(img, (ox, oy)); img is solid, or has the canvas's ground
Paste(cv, img, ox, oy) ==
    [cv EXCEPT !.x0 = ox + img.x0, !.y0 = oy + img.y0,
               !.x1 = ox + img.x1, !.y1 = oy + img.y1,
               !.fg = img.fg]

fit_to_aspect_swapped(img, target_aspect) ==
    LET w == img.w
        h == img.h
        wider == w < target_aspect * h
        new_w == IF wider THEN w ELSE h * target_aspect
        new_h == IF wider THEN w \div target_aspect ELSE h
    IN  Paste(ImageNew("RGB", new_w, new_h, 0), img,
              (new_w - w) \div 2, (new_h - h) \div 2)

fit_to_aspect_ceil(img, target_aspect) ==
    LET w == img.w
        h == img.h
        wider == w > target_aspect * h
        new_w == IF wider THEN w ELSE h * target_aspect
        new_h == IF wider THEN (w + target_aspect - 1) \div target_aspect ELSE h
    IN  Paste(ImageNew("RGB", new_w, new_h, 0), img,
              (new_w - w) \div 2, (new_h - h) \div 2)

\* w / h > target_aspect is decided exactly by the float division for every
\* image size (sizes are far below 2^51); int() truncates a positive quotient.
fit_to_aspect(img, target_aspect) ==
    LET w == img.w
        h == img.h
        wider == w > target_aspect * h
        new_w == IF wider THEN w ELSE h * target_aspect
        new_h == IF wider THEN w \div target_aspect ELSE h
    IN  Paste(ImageNew("RGB", new_w, new_h, 0), img,
              (new_w - w) \div 2, (new_h - h) \div 2)

\* img.convert("RGB"): grey v becomes (v, v, v)
convert_rgb(img) == [img EXCEPT !.mode = "RGB"]

\* The number of the n output pixels whose centre lies before source
\* coordinate x, for a source of extent size.
CellsBefore(n, size, x) ==
    Cardinality({k \in 0..(n - 1) : (2 * k + 1) * size < 2 * n * x})

\* img.resize((w, h), Image.LANCZOS), each output pixel taken at its centre:
\* exact where the filter's window is of one colour.
resize(img, w, h) ==
    [img EXCEPT !.w = w, !.h = h,
                !.x0 = CellsBefore(w, img.w, img.x0),
                !.x1 = CellsBefore(w, img.w, img.x1),
                !.y0 = CellsBefore(h, img.h, img.y0),
                !.y1 = CellsBefore(h, img.h, img.y1)]

\* The library's bilevel quantiser: white above 128.  On pixels that are 0 or
\* 255 the quantisation error is zero, so Floyd-Steinberg diffuses nothing.
Bilevel(v) == IF v > 128 THEN 255 ELSE 0

\* img.convert("1", dither=Image.FLOYDSTEINBERG)
dither(img) ==
    [img EXCEPT !.mode = "1", !.fg = Bilevel(img.fg), !.bg = Bilevel(img.bg)]

\* ImageOps.invert(img)
invert(img) == [img EXCEPT !.fg = 255 - img.fg, !.bg = 255 - img.bg]

ApplyStep(step, img) ==
    CASE step = "convert_rgb" -> convert_rgb(img)
      [] step = "fit_to_aspect" -> fit_to_aspect(img, TargetAspect)
      [] step = "resize" -> resize(img, WIDTH, HEIGHT)
      [] step = "dither" -> dither(img)
      [] step = "invert" -> invert(img)

RECURSIVE RunSteps(_, _)
RunSteps(steps, img) ==
    IF steps = <<>> THEN img
    ELSE RunSteps(Tail(steps), ApplyStep(Head(steps), img))

ProcessSteps_invert_first(inv) ==
    (IF inv THEN <<"invert">> ELSE <<>>)
        \o <<"convert_rgb", "fit_to_aspect", "resize", "dither">>

\* The statements of process_frame, in the order it runs them.
ProcessSteps(inv) ==
    <<"convert_rgb", "fit_to_aspect", "resize", "dither">>
        \o (IF inv THEN <<"invert">> ELSE <<>>)

process_frame(img, inv) == RunSteps(ProcessSteps(inv), img)

\* ---------------------------------------------------------- frame packer
RECURSIVE BitLoop(_, _, _, _, _)
\* for bit in range(8): if pixels[x, page*8+bit]: byte |= (1 << bit)
BitLoop(img, page, x, bit, byte) ==
    IF bit = 8 THEN byte
    ELSE BitLoop(img, page, x, bit + 1,
                 IF Pixel(img, x, page * 8 + bit) # 0
                 THEN (IF (byte \div (2 ^ bit)) % 2 = 1
                       THEN byte ELSE byte + 2 ^ bit)
                 ELSE byte)

PageBytes_mirrored(img, page) ==
    [k \in 1..WIDTH |-> BitLoop(img, page, WIDTH - k, 0, 0)]

\* for x in range(WIDTH): byte = 0; ...; fb.append(byte)
\* (the bytes one page appends, in the order of the appends)
PageBytes(img, page) ==
    [k \in 1..WIDTH |-> BitLoop(img, page, k - 1, 0, 0)]

RECURSIVE PageLoop(_, _, _)
\* for page in range(PAGES): ...
PageLoop(img, page, acc) ==
    IF page = PAGES THEN acc
    ELSE PageLoop(img, page + 1, acc \o PageBytes(img, page))

image_to_framebuffer(img) == PageLoop(img, 0, <<>>)


\* ---------------------------------------------------------------- emitter
\* One entry per f.write call: what it writes and the values it formats.
Line(kind, arg) == [kind |-> kind, arg |-> arg]

\* f"0x{b:02X}": the two hexadecimal digits of a byte
Hex2(b) == <<b \div 16, b % 16>>

Min(a, b) == IF a < b THEN a ELSE b

\* fb[i:i+16]
Slice(s, lo, hi) == SubSeq(s, lo + 1, Min(hi, Len(s)))

\* ", ".join(f"0x{b:02X}" for b in fb[i:i+16])
HexRow(chunk) == [k \in 1..Len(chunk) |-> Hex2(chunk[k])]

\* for i in range(0, len(fb), 16): f.write(<kind> + HexRow(fb[i:i+16]))
ByteRows(kind, s) ==
    [k \in 1..((Len(s) + RowLen - 1) \div RowLen) |->
        Line(kind, HexRow(Slice(s, (k - 1) * RowLen, k * RowLen)))]

write_c_static(buf) ==
    <<Line("#include <stdint.h>", <<>>),
      Line("const uint8_t framebuffer[] = {", <<FRAMEBUFFER_SIZE>>)>>
        \o ByteRows("c_row", buf)
        \o <<Line("};", <<>>)>>

RECURSIVE CFrames(_)
\* for fb in frames: "{", the rows, "},"
CFrames(frames) ==
    IF frames = <<>> THEN <<>>
    ELSE <<Line("{", <<>>)>> \o ByteRows("c_row", Head(frames))
            \o <<Line("},", <<>>)>> \o CFrames(Tail(frames))

write_c_animated(frames, durs) ==
    <<Line("#include <stdint.h>", <<>>),
      Line("#define N_FRAMES", <<Len(frames)>>),
      Line("const uint16_t frame_durations[N_FRAMES] = {", <<>>),
      Line("durations", durs),
      Line("};", <<>>),
      Line("const uint8_t framebuffer[N_FRAMES][1024] = {", <<>>)>>
        \o CFrames(frames)
        \o <<Line("};", <<>>)>>

write_asm_static_ctl(buf) ==
    <<Line(".byte", <<Hex2(ControlByte)>>)>> \o ByteRows(".byte", buf)

write_asm_static(buf) == ByteRows(".byte", buf)

RECURSIVE AsmFrames(_, _)
\* for idx, fb in enumerate(frames): the label, the control byte, the rows
AsmFrames(frames, idx) ==
    IF frames = <<>> THEN <<>>
    ELSE <<Line("frame_:", <<idx>>),
           Line(".byte", <<Hex2(ControlByte)>>)>>
            \o ByteRows(".byte", Head(frames))
            \o AsmFrames(Tail(frames), idx + 1)

write_asm_animated_nolabel(frames, durs) ==
    <<Line("n_frames: .hword", <<Len(frames)>>),
      Line("frame_durations:", <<>>),
      Line(".hword", durs)>>
        \o AsmFrames(frames, 1)

write_asm_animated(frames, durs) ==
    <<Line("n_frames: .hword", <<Len(frames)>>),
      Line("frame_durations:", <<>>),
      Line(".hword", durs)>>
        \o AsmFrames(frames, 0)

\* for i, d in enumerate(durations): f.write(f"frame_{i:03d}: {d}\n")
write_durations_txt(durs) ==
    [k \in 1..Len(durs) |-> Line("frame_: ", <<k - 1, durs[k]>>)]

get_frame_duration_or(frame, default) ==
    IF "duration" \in DOMAIN frame.info /\ frame.info["duration"] # 0
    THEN frame.info["duration"] ELSE default

\* frame.info.get("duration", default)
get_frame_duration(frame, default) ==
    IF "duration" \in DOMAIN frame.info THEN frame.info["duration"] ELSE default

\* ------------------------------------------------------------ file system
\* Output names are relative to base and out_dir, which never coincide:
\* <base>_128x64.png, <base>_fb.c, <base>_fb.S, <out_dir>/frame_NNN.png and
\* <out_dir>/durations.txt.
Path(dir, name, idx) == [dir |-> dir, name |-> name, idx |-> idx]

OutDir == Path("out_dir", "", 0)
FramePngPath_fixed(k) == Path("out_dir", "frame_.png", 0)
\* os.path.join(out_dir, f"frame_{i:03d}.png")
FramePngPath(k) == Path("out_dir", "frame_.png", k)
DurationsPath == Path("out_dir", "durations.txt", 0)
StaticPngPath == Path("cwd", "_128x64.png", 0)
BufferPath(format) == Path("cwd", IF format = "c" THEN "_fb.c" ELSE "_fb.S", 0)

File(complete, data) == [complete |-> complete, data |-> data]

\* open(path, "w") and the writes: the file is created or replaced
WriteFile(fsys, path, file) == (path :> file) @@ fsys

NoFiles == [p \in {} |-> File(TRUE, <<>>)]

\* -------------------------------------------------------------- the inputs
Info(has, d) == [k \in (IF has THEN {"duration"} ELSE {}) |-> d]

SquareWhite == Solid("L", 256, 256, 255)
WideWhite == Solid("L", 400, 100, 255)

\* Source frames: with no duration of their own, with a duration of 0 (a GIF
\* frame with no delay) and with a duration of 150.
SrcFrames ==
    {[img |-> SquareWhite, info |-> Info(FALSE, 0)],
     [img |-> SquareWhite, info |-> Info(TRUE, 0)],
     [img |-> WideWhite, info |-> Info(TRUE, 150)],
     [img |-> WideWhite, info |-> Info(FALSE, 0)]}

Inputs == UNION {[1..n -> SrcFrames] : n \in 1..MaxFrames}

Args == [image : BOOLEAN, buffer : BOOLEAN, format : {"none", "c", "asm"},
         invert : BOOLEAN, animated : BOOLEAN]

UsageError_nofmt(a) == ~a.image /\ ~a.buffer

\* the two parser.error checks of main
UsageError(a) ==
    \/ ~a.image /\ ~a.buffer
    \/ a.buffer /\ a.format = "none"

\* ------------------------------------------------------------------- main
IdleMain(p) ==
    /\ args = [image |-> FALSE, buffer |-> FALSE, format |-> "none",
               invert |-> FALSE, animated |-> FALSE]
    /\ input = <<>>
    /\ pc = p
    /\ opened = FALSE
    /\ i = 0
    /\ frames_img = <<>>
    /\ frames_fb = <<>>
    /\ durations = <<>>
    /\ processed = NoImage
    /\ fb = <<>>
    /\ fs = NoFiles
    /\ exit_code = -1
    /\ pipeline = <<>>

IdleFit == fit_src = NoImage /\ canvas = NoImage
IdlePack == bitmap = NoImage /\ packed = <<>>

Init ==
    /\ args \in Args
    /\ input \in Inputs
    /\ pc = "start"
    /\ opened = FALSE
    /\ i = 0
    /\ frames_img = <<>>
    /\ frames_fb = <<>>
    /\ durations = <<>>
    /\ processed = NoImage
    /\ fb = <<>>
    /\ fs = NoFiles
    /\ exit_code = -1
    /\ pipeline = <<>>
    /\ IdleFit
    /\ IdlePack

\* args = parser.parse_args() and the two checks after it
ParseArgs ==
    /\ pc = "start"
    /\ IF UsageError(args)
       THEN pc' = "usage_error" /\ exit_code' = 2
       ELSE pc' = "open" /\ exit_code' = exit_code
    /\ UNCHANGED <<args, input, opened, i, frames_img, frames_fb, durations,
                   processed, fb, fs, pipeline, fitVars, packVars>>

\* img = Image.open(args.input)
OpenInput ==
    /\ pc = "open"
    /\ opened' = TRUE
    /\ pc' = IF args.animated THEN "frames" ELSE "static"
    /\ UNCHANGED <<args, input, i, frames_img, frames_fb, durations,
                   processed, fb, fs, exit_code, pipeline, fitVars, packVars>>

\* one iteration of: for frame in ImageSequence.Iterator(img)
NextFrame ==
    /\ pc = "frames"
    /\ i < Len(input)
    /\ LET frame == input[i + 1]
           duration == get_frame_duration(frame, DefaultDuration)
           done == process_frame(frame.img, args.invert)
       IN  /\ frames_img' = Append(frames_img, done)
           /\ durations' = Append(durations, duration)
           /\ frames_fb' = IF args.buffer
                           THEN Append(frames_fb, image_to_framebuffer(done))
                           ELSE frames_fb
    /\ pipeline' = Append(pipeline, [mode |-> "animated",
                                     steps |-> ProcessSteps(args.invert)])
    /\ i' = i + 1
    /\ UNCHANGED <<args, input, pc, opened, processed, fb, fs, exit_code,
                   fitVars, packVars>>

\* the iterator is exhausted
EndFrames ==
    /\ pc = "frames"
    /\ i = Len(input)
    /\ pc' = IF args.image THEN "makedirs" ELSE "anim_buffer"
    /\ i' = 0
    /\ UNCHANGED <<args, input, opened, frames_img, frames_fb, durations,
                   processed, fb, fs, exit_code, pipeline, fitVars, packVars>>

\* os.makedirs(out_dir, exist_ok=True)
MakeDirs ==
    /\ pc = "makedirs"
    /\ fs' = WriteFile(fs, OutDir, File(TRUE, <<>>))
    /\ pc' = "save_png"
    /\ UNCHANGED <<args, input, opened, i, frames_img, frames_fb, durations,
                   processed, fb, exit_code, pipeline, fitVars, packVars>>

\* frame.save(os.path.join(out_dir, f"frame_{i:03d}.png"))
SavePng ==
    /\ pc = "save_png"
    /\ i < Len(frames_img)
    /\ fs' = WriteFile(fs, FramePngPath(i), File(TRUE, frames_img[i + 1]))
    /\ i' = i + 1
    /\ UNCHANGED <<args, input, pc, opened, frames_img, frames_fb, durations,
                   processed, fb, exit_code, pipeline, fitVars, packVars>>

\* write_durations_txt(durations, out_dir)
WriteDurations ==
    /\ pc = "save_png"
    /\ i = Len(frames_img)
    /\ fs' = WriteFile(fs, DurationsPath,
                       File(TRUE, write_durations_txt(durations)))
    /\ IF args.buffer
       THEN pc' = "anim_buffer" /\ exit_code' = exit_code
       ELSE pc' = "done" /\ exit_code' = 0
    /\ UNCHANGED <<args, input, opened, i, frames_img, frames_fb, durations,
                   processed, fb, pipeline, fitVars, packVars>>

AnimBufferData ==
    IF args.format = "c"
    THEN write_c_animated(frames_fb, durations)
    ELSE write_asm_animated(frames_fb, durations)

\* if args.buffer: write_c_animated(...) or write_asm_animated(...)
WriteAnimBuffer ==
    /\ pc = "anim_buffer"
    /\ fs' = WriteFile(fs, BufferPath(args.format), File(TRUE, AnimBufferData))
    /\ pc' = "done"
    /\ exit_code' = 0
    /\ UNCHANGED <<args, input, opened, i, frames_img, frames_fb, durations,
                   processed, fb, pipeline, fitVars, packVars>>

\* processed = process_frame(img, args.invert)
ProcessStatic ==
    /\ pc = "static"
    /\ processed' = process_frame(input[1].img, args.invert)
    /\ pipeline' = Append(pipeline, [mode |-> "static",
                                     steps |-> ProcessSteps(args.invert)])
    /\ pc' = IF args.image THEN "static_image" ELSE "static_buffer"
    /\ UNCHANGED <<args, input, opened, i, frames_img, frames_fb, durations,
                   fb, fs, exit_code, fitVars, packVars>>

\* processed.save(f"{base}_128x64.png")
SaveStaticPng ==
    /\ pc = "static_image"
    /\ fs' = WriteFile(fs, StaticPngPath, File(TRUE, processed))
    /\ IF args.buffer
       THEN pc' = "static_buffer" /\ exit_code' = exit_code
       ELSE pc' = "done" /\ exit_code' = 0
    /\ UNCHANGED <<args, input, opened, i, frames_img, frames_fb, durations,
                   processed, fb, pipeline, fitVars, packVars>>

StaticBufferData(buf) ==
    IF args.format = "c" THEN write_c_static(buf) ELSE write_asm_static(buf)

\* fb = image_to_framebuffer(processed); write_c_static or write_asm_static
WriteStaticBuffer ==
    /\ pc = "static_buffer"
    /\ fb' = image_to_framebuffer(processed)
    /\ fs' = WriteFile(fs, BufferPath(args.format),
                       File(TRUE, StaticBufferData(fb')))
    /\ pc' = "done"
    /\ exit_code' = 0
    /\ UNCHANGED <<args, input, opened, i, frames_img, frames_fb, durations,
                   processed, pipeline, fitVars, packVars>>

\* The file the statement at pc is about to write.
PendingPath ==
    CASE pc = "makedirs" -> OutDir
      [] pc = "save_png" /\ i < Len(frames_img) -> FramePngPath(i)
      [] pc = "save_png" /\ i = Len(frames_img) -> DurationsPath
      [] pc = "static_image" -> StaticPngPath
      [] OTHER -> BufferPath(args.format)

\* An unhandled OSError from makedirs, save or open/write: the process ends.
\* The file being written is absent (open failed) or left incomplete; the
\* bytes of an incomplete file are not modelled.
WriteFails ==
    /\ pc \in {"makedirs", "save_png", "static_image", "anim_buffer",
               "static_buffer"}
    /\ \E created \in BOOLEAN :
          fs' = IF created /\ pc # "makedirs"
                THEN WriteFile(fs, PendingPath, File(FALSE, <<>>))
                ELSE fs
    /\ pc' = "crashed"
    /\ exit_code' = 1
    /\ UNCHANGED <<args, input, opened, i, frames_img, frames_fb, durations,
                   processed, fb, pipeline, fitVars, packVars>>

\* An unhandled error from Image.open or from decoding a frame.
ReadFails ==
    /\ \/ pc = "open"
       \/ pc = "frames" /\ i < Len(input)
       \/ pc = "static"
    /\ pc' = "crashed"
    /\ exit_code' = 1
    /\ UNCHANGED <<args, input, opened, i, frames_img, frames_fb, durations,
                   processed, fb, fs, pipeline, fitVars, packVars>>

Next ==
    \/ ParseArgs
    \/ OpenInput
    \/ NextFrame
    \/ EndFrames
    \/ MakeDirs
    \/ SavePng
    \/ WriteDurations
    \/ WriteAnimBuffer
    \/ ProcessStatic
    \/ SaveStaticPng
    \/ WriteStaticBuffer
    \/ WriteFails
    \/ ReadFails

Spec == Init /\ [][Next]_vars

\* ------------------------------------------------- fit_to_aspect, by itself
InitFit ==
    /\ IdleMain("fit")
    /\ \E w \in 1..MaxDim, h \in 1..MaxDim : fit_src = Solid("RGB", w, h, 255)
    /\ canvas = NoImage
    /\ IdlePack

\* img = fit_to_aspect(img, target_aspect=2.0)
Fit ==
    /\ pc = "fit"
    /\ canvas' = fit_to_aspect(fit_src, TargetAspect)
    /\ pc' = "fit_done"
    /\ UNCHANGED <<args, input, opened, i, frames_img, frames_fb, durations,
                   processed, fb, fs, exit_code, pipeline, fit_src, packVars>>

NextFit == Fit

SpecFit == InitFit /\ [][NextFit]_vars

\* ------------------------------------------ image_to_framebuffer, by itself
DotCols == {(k * 61) % WIDTH : k \in 0..MaxDotCols}

\* 128x64 one-bit bitmaps: one lit pixel on black, one dark pixel on white
Bitmaps ==
    {[mode |-> "1", w |-> WIDTH, h |-> HEIGHT,
      x0 |-> px, y0 |-> py, x1 |-> px + 1, y1 |-> py + 1,
      fg |-> v, bg |-> 255 - v] :
        px \in DotCols, py \in 0..(HEIGHT - 1), v \in {0, 255}}

InitPack ==
    /\ IdleMain("pack")
    /\ IdleFit
    /\ bitmap \in Bitmaps
    /\ packed = <<>>

\* fb = image_to_framebuffer(processed)
Pack ==
    /\ pc = "pack"
    /\ packed' = image_to_framebuffer(bitmap)
    /\ pc' = "pack_done"
    /\ UNCHANGED <<args, input, opened, i, frames_img, frames_fb, durations,
                   processed, fb, fs, exit_code, pipeline, fitVars, bitmap>>

NextPack == Pack

SpecPack == InitPack /\ [][NextPack]_vars

\* ------------------------------------------------------ reading an output
HexValue(d) == d[1] * 16 + d[2]

RowsPerFrame == FRAMEBUFFER_SIZE \div RowLen

\* The bytes of the nrows full rows that follow line `before` of out.
RowsDecode(out, before, nrows) ==
    [j \in 1..(nrows * RowLen) |->
        HexValue(out[before + ((j - 1) \div RowLen) + 1].arg[((j - 1) % RowLen) + 1])]

\* Lines before + 1 .. before + nrows of out are rows of kind, 16 bytes each.
FullRows(out, before, nrows, kind) ==
    /\ Len(out) >= before + nrows
    /\ \A r \in 1..nrows :
          /\ out[before + r].kind = kind
          /\ Len(out[before + r].arg) = RowLen

ByteLines(out) ==
    Cardinality({k \in 1..Len(out) : out[k].kind \in {"c_row", ".byte"}})

SourceDuration(frame) ==
    IF "duration" \in DOMAIN frame.info THEN frame.info["duration"] ELSE 100

HasWritten(path) == path \in DOMAIN fs /\ fs[path].complete

\* ----------------------------------------------------------------- claims

\* C1: image_to_framebuffer of a 128x64 bitmap returns exactly 1024
\* (= width x height/8) bytes, page-major and column-minor: bit b of the byte at
\* index p*128 + x is set iff the pixel at (x, p*8 + b) is non-zero.
C1_PageMajorLayout ==
    pc = "pack_done" =>
        /\ Len(packed) = 1024
        /\ Len(packed) = WIDTH * (HEIGHT \div 8)
        /\ \A p \in 0..7, x \in 0..127, b \in 0..7 :
              ((packed[p * 128 + x + 1] \div (2 ^ b)) % 2 = 1)
                  <=> (Pixel(bitmap, x, p * 8 + b) # 0)

C1_Witness ==
    /\ pc = "pack_done"
    /\ bitmap.fg = 255 /\ bitmap.bg = 0
    /\ bitmap.x0 = 61 /\ bitmap.y0 = 37
    /\ packed[4 * 128 + 61 + 1] = 32
    /\ packed[1] = 0

\* C2 (as stated): the canvas fit_to_aspect returns for ratio 2.0 has
\* width = 2 x height for every source size.
C2_AspectExact ==
    pc = "fit_done" => canvas.w = 2 * canvas.h

\* C2 (amended): the canvas has width = 2 x height unless the source is wider
\* than 2:1 and of odd width w; then height = floor(w/2) and
\* width = w = 2 x height + 1.
C2_AspectUpToTruncation ==
    pc = "fit_done" =>
        IF fit_src.w > 2 * fit_src.h /\ fit_src.w % 2 = 1
        THEN canvas.w = 2 * canvas.h + 1 /\ canvas.w = fit_src.w
        ELSE canvas.w = 2 * canvas.h

C2_Witness ==
    /\ pc = "fit_done"
    /\ fit_src.w = 7 /\ fit_src.h = 2
    /\ canvas.w = 7 /\ canvas.h = 3

\* C9: fit_to_aspect never crops: the canvas is at least as wide and as tall as
\* the source, both paste offsets are non-negative, and the whole source lies
\* inside the canvas.
C9_NeverCrops ==
    pc = "fit_done" =>
        /\ canvas.w >= fit_src.w
        /\ canvas.h >= fit_src.h
        /\ (canvas.w - fit_src.w) \div 2 >= 0
        /\ (canvas.h - fit_src.h) \div 2 >= 0
        /\ canvas.x0 = (canvas.w - fit_src.w) \div 2
        /\ canvas.y0 = (canvas.h - fit_src.h) \div 2
        /\ canvas.x1 = canvas.x0 + fit_src.w /\ canvas.x1 <= canvas.w
        /\ canvas.y1 = canvas.y0 + fit_src.h /\ canvas.y1 <= canvas.h

C9_Witness ==
    /\ pc = "fit_done"
    /\ fit_src.w = 3 /\ fit_src.h = 5
    /\ canvas.w = 10 /\ canvas.h = 5
    /\ canvas.x0 = 3 /\ canvas.x1 = 6

Before(steps, a, b) ==
    \E j, k \in 1..Len(steps) : j < k /\ steps[j] = a /\ steps[k] = b

\* C3 (as stated): with inversion requested, the static path flips polarity
\* before fitting, resizing and dithering, and the animated path flips each
\* frame after dithering.
C3_InvertOrderByMode ==
    \A k \in 1..Len(pipeline) :
        args.invert =>
            IF pipeline[k].mode = "static"
            THEN /\ Before(pipeline[k].steps, "invert", "fit_to_aspect")
                 /\ Before(pipeline[k].steps, "invert", "resize")
                 /\ Before(pipeline[k].steps, "invert", "dither")
            ELSE Before(pipeline[k].steps, "dither", "invert")

\* C4: a run given neither --image nor --buffer, or --buffer without --format,
\* ends in a usage error with a non-zero exit before any processing: the input
\* is not opened, no frame is processed, no file is written.
C4_UsageErrorBeforeProcessing ==
    (/\ pc # "start"
     /\ \/ ~args.image /\ ~args.buffer
        \/ args.buffer /\ args.format = "none")
        => /\ pc = "usage_error"
           /\ exit_code > 0
           /\ ~opened
           /\ pipeline = <<>> /\ frames_img = <<>> /\ frames_fb = <<>>
           /\ processed = NoImage /\ fb = <<>>
           /\ DOMAIN fs = {}

C4_Witness ==
    /\ pc = "usage_error"
    /\ args.image /\ args.buffer /\ args.format = "none"
    /\ exit_code = 2

\* C5: for an animated input of n frames with --buffer --format asm, the
\* assembly declares n_frames as n, a duration table of the n frame durations in
\* source order, and the blocks frame_0 .. frame_(n-1) in source order, each one
\* 0x40 control byte followed by that frame's 1024 packed bytes.
C5_AsmAnimatedLayout ==
    (pc = "done" /\ args.animated /\ args.buffer /\ args.format = "asm") =>
        /\ HasWritten(BufferPath("asm"))
        /\ LET out == fs[BufferPath("asm")].data
               n == Len(input)
               block == 2 + RowsPerFrame
           IN  /\ Len(out) = 3 + n * block
               /\ out[1] = Line("n_frames: .hword", <<n>>)
               /\ out[2].kind = "frame_durations:"
               /\ out[3].kind = ".hword"
               /\ out[3].arg = [k \in 1..n |-> SourceDuration(input[k])]
               /\ \A f \in 0..(n - 1) :
                     /\ out[3 + f * block + 1] = Line("frame_:", <<f>>)
                     /\ out[3 + f * block + 2].kind = ".byte"
                     /\ Len(out[3 + f * block + 2].arg) = 1
                     /\ HexValue(out[3 + f * block + 2].arg[1]) = 64
                     /\ FullRows(out, 3 + f * block + 2, RowsPerFrame, ".byte")
                     /\ RowsDecode(out, 3 + f * block + 2, RowsPerFrame)
                          = image_to_framebuffer(
                                process_frame(input[f + 1].img, args.invert))
                     /\ Len(frames_fb[f + 1]) = 1024

C5_Witness ==
    /\ pc = "done" /\ args.animated /\ args.buffer /\ args.format = "asm"
    /\ Len(input) = 2
    /\ input[1].img # input[2].img
    /\ SourceDuration(input[1]) = 150 /\ SourceDuration(input[2]) = 0
    /\ HasWritten(BufferPath("asm"))
    /\ fs[BufferPath("asm")].data[3].arg = <<150, 0>>

StaticWhiteInvertedC ==
    /\ pc = "done" /\ ~args.animated /\ args.buffer /\ args.format = "c"
    /\ args.invert
    /\ input[1].img = Solid("L", 256, 256, 255)

\* C6 (as stated): a 256x256 solid white input, static mode, --buffer
\* --format c, --invert: the framebuffer array has 1024 entries, all 0xFF.
C6_WhiteInvertedAllFF ==
    StaticWhiteInvertedC =>
        LET out == fs[BufferPath("c")].data
        IN  /\ FullRows(out, 2, RowsPerFrame, "c_row")
            /\ \A j \in 1..1024 : RowsDecode(out, 2, RowsPerFrame)[j] = 255

\* C6 (amended): that run yields 1024 entries that are not all 0xFF: the square
\* source is padded with black bars to 512x256 and inversion runs after
\* dithering, so in every page the bars (columns 0..31 and 96..127) are 0xFF and
\* the source area (columns 32..95) is 0x00.
C6_WhiteInvertedBarsFF ==
    StaticWhiteInvertedC =>
        /\ HasWritten(BufferPath("c"))
        /\ LET out == fs[BufferPath("c")].data
           IN  /\ Len(out) = 2 + RowsPerFrame + 1
               /\ out[2].arg = <<1024>>
               /\ FullRows(out, 2, RowsPerFrame, "c_row")
               /\ \A p \in 0..7, x \in 0..127 :
                     RowsDecode(out, 2, RowsPerFrame)[p * 128 + x + 1]
                        = IF 32 <= x /\ x <= 95 THEN 0 ELSE 255

C6_Witness ==
    /\ StaticWhiteInvertedC
    /\ HasWritten(BufferPath("c"))
    /\ fs[BufferPath("c")].data[3].arg[1] = <<15, 15>>
    /\ fs[BufferPath("c")].data[5].arg[1] = <<0, 0>>

\* C7 (as stated): in animated mode every recorded duration is a positive
\* integer, the source frame's own when it has one and 100 otherwise, one per
\* source frame.
C7_DurationsPositive ==
    args.animated =>
        /\ \A k \in 1..Len(durations) :
              /\ durations[k] > 0
              /\ durations[k] = SourceDuration(input[k])
        /\ pc \in {"makedirs", "save_png", "anim_buffer", "done"}
              => Len(durations) = Len(input)

\* C7 (amended): in animated mode every recorded duration is the source
\* frame's own when it has one, whatever its value (0 included: it need not be
\* positive), and 100 otherwise, one per source frame.
C7_DurationsFromSource ==
    args.animated =>
        /\ \A k \in 1..Len(durations) :
              durations[k] = SourceDuration(input[k])
        /\ pc = "frames" => Len(durations) = i
        /\ pc \in {"makedirs", "save_png", "anim_buffer", "done"}
              => Len(durations) = Len(input)

C7_Witness ==
    /\ pc = "done" /\ args.animated
    /\ Len(input) = 2
    /\ DOMAIN input[1].info = {} /\ DOMAIN input[2].info = {"duration"}
    /\ input[2].info["duration"] = 0
    /\ durations = <<100, 0>>

\* C8: only the animated assembly emitter adds the 0x40 control byte: the
\* static assembly output and both C outputs hold, per frame, exactly the
\* framebuffer's bytes in order, with no byte before or between them.
C8_ControlByteOnlyAnimatedAsm ==
    (pc = "done" /\ args.buffer) =>
        /\ HasWritten(BufferPath(args.format))
        /\ LET out == fs[BufferPath(args.format)].data
               n == Len(frames_fb)
           IN  CASE ~args.animated /\ args.format = "c" ->
                      /\ ByteLines(out) = RowsPerFrame
                      /\ FullRows(out, 2, RowsPerFrame, "c_row")
                      /\ RowsDecode(out, 2, RowsPerFrame) = fb
                 [] ~args.animated /\ args.format = "asm" ->
                      /\ ByteLines(out) = RowsPerFrame
                      /\ FullRows(out, 0, RowsPerFrame, ".byte")
                      /\ RowsDecode(out, 0, RowsPerFrame) = fb
                 [] args.animated /\ args.format = "c" ->
                      /\ ByteLines(out) = n * RowsPerFrame
                      /\ \A f \in 0..(n - 1) :
                            LET at == 6 + f * (RowsPerFrame + 2)
                            IN  /\ out[at + 1].kind = "{"
                                /\ FullRows(out, at + 1, RowsPerFrame, "c_row")
                                /\ RowsDecode(out, at + 1, RowsPerFrame)
                                     = frames_fb[f + 1]
                                /\ out[at + RowsPerFrame + 2].kind = "},"
                 [] args.animated /\ args.format = "asm" ->
                      /\ ByteLines(out) = n * (RowsPerFrame + 1)
                      /\ \A f \in 0..(n - 1) :
                            LET at == 3 + f * (RowsPerFrame + 2)
                            IN  /\ out[at + 2] = Line(".byte", <<Hex2(64)>>)
                                /\ FullRows(out, at + 2, RowsPerFrame, ".byte")
                                /\ RowsDecode(out, at + 2, RowsPerFrame)
                                     = frames_fb[f + 1]

C8_Witness ==
    /\ pc = "done" /\ args.buffer /\ ~args.animated /\ args.format = "asm"
    /\ Len(fb) = 1024
    /\ HasWritten(BufferPath("asm"))
    /\ Len(fs[BufferPath("asm")].data) = RowsPerFrame

\* C10: a run never removes or rewrites an output it has written: whatever
\* step fails, every file written before it is still in place with its
\* content.
C10_OutputsKept ==
    [][\A p \in DOMAIN fs : p \in DOMAIN fs' /\ fs'[p] = fs[p]]_vars

C10_Witness ==
    /\ pc = "crashed"
    /\ args.animated /\ args.image /\ args.buffer
    /\ Len(frames_img) = 2 /\ frames_img[1] # frames_img[2]
    /\ HasWritten(FramePngPath(0)) /\ fs[FramePngPath(0)].data = frames_img[1]
    /\ HasWritten(FramePngPath(1)) /\ fs[FramePngPath(1)].data = frames_img[2]
    /\ HasWritten(DurationsPath)
    /\ BufferPath(args.format) \in DOMAIN fs
    /\ ~fs[BufferPath(args.format)].complete

=============================================================================
